---- MODULE Spec2Model ----
(***************************************************************************)
(* Model of Sources/parakeet_daemon.py: the ParakeetDaemon process.        *)
(*                                                                         *)
(* The daemon is one Python thread.  Its state is the two fields of        *)
(* ParakeetDaemon (model, running), the lines written to standard output,  *)
(* the position of the thread in run_daemon / initialize_model, and the    *)
(* locals `request` and `response` of the listen loop.  SIGTERM / SIGINT   *)
(* are served by _signal_handler, which CPython runs in the same thread    *)
(* between two statements, so the handler is an action that may fire at    *)
(* every position of the thread.  A readline() that a signal interrupts is *)
(* resumed after the handler returns, and a print that has started is      *)
(* finished before the handler runs.  Both signals are bound to the        *)
(* handler, so KeyboardInterrupt is never raised and lines 218-219 have no *)
(* action.  Standard input is the caller's: ReadLine and ReadEOF happen    *)
(* when the caller writes a line or closes the stream.                     *)
(***************************************************************************)
EXTENDS Integers, Sequences, FiniteSets, TLC

VARIABLES
    pc,         \* position of the main thread
    model,      \* self.model
    running,    \* self.running
    out,        \* lines printed on standard output, oldest first
    request,    \* the line read by the current loop iteration
    response,   \* the local `response` of the loop, before it is printed
    hist,       \* lines read from standard input so far, oldest first
    loads,      \* calls of from_pretrained so far, oldest first
    touched,    \* what the current iteration used: subset of {"fs","engine"}
    env,        \* the file and the engine behaviour process_request met
    sigs,       \* for each signal delivered: where the thread was
    eofAt,      \* lines printed when readline() met end of input, else NoExit
    exitCode    \* exit status of the process, NoExit while it runs

vars == <<pc, model, running, out, request, response, hist, loads, touched,
          env, sigs, eofAt, exitCode>>

----------------------------------------------------------------------------
(* Bounds *)

MaxLines == 2       \* lines the caller writes before it stops or closes
MaxSignals == 1     \* termination signals delivered to the process
MaxAudio == 1       \* of the caller's lines, those that name a PCM file

NoExit == 0 - 1

----------------------------------------------------------------------------
(* Python values that travel through a response *)

PyStr(s) == [t |-> "str", v |-> s]
PyNone == [t |-> "NoneType", v |-> <<>>]
PyFloat(x) == [t |-> "float", v |-> <<x>>]
PyArray == [t |-> "array", v |-> <<>>]
Absent == [t |-> "absent", v |-> <<>>]

\* bool(x) as used by `if text`
Truthy(x) == CASE x.t = "str" -> x.v # <<>>
               [] x.t = "NoneType" -> FALSE
               [] OTHER -> TRUE

RECURSIVE lstrip(_)
lstrip(s) == IF s # <<>> /\ Head(s) = " " THEN lstrip(Tail(s)) ELSE s

RECURSIVE rstrip(_)
rstrip(s) == IF s # <<>> /\ s[Len(s)] = " "
             THEN rstrip(SubSeq(s, 1, Len(s) - 1)) ELSE s

\* str.strip()
strip(s) == rstrip(lstrip(s))

\* json.dumps accepts str, None and float values only
Serializable(x) == x.t \in {"str", "NoneType", "float", "absent"}

----------------------------------------------------------------------------
(* Response lines *)

Status(st, msg) ==
    [status |-> st, message |-> msg, text |-> Absent, language |-> Absent,
     confidence |-> Absent, traceback |-> FALSE]

ErrorTrace(msg) ==
    [status |-> "error", message |-> msg, text |-> Absent,
     language |-> Absent, confidence |-> Absent, traceback |-> TRUE]

Success(text, language, confidence) ==
    [status |-> "success", message |-> <<>>, text |-> text,
     language |-> language, confidence |-> confidence, traceback |-> FALSE]

\* print(json.dumps(r), flush=True); k is the input line that r answers,
\* 0 when r is unsolicited
print(r, k) == Append(out, [line |-> r, req |-> k])

json_dumps_ok(r) ==
    Serializable(r.text) /\ Serializable(r.language) /\ Serializable(r.confidence)

----------------------------------------------------------------------------
(* Input lines.  A line is blank, not JSON, JSON that is not an object, or *)
(* a JSON object; of an object only the keys the daemon looks at are kept. *)
(* command "transcribe" stands for every value other than ping / shutdown, *)
(* pcm_path "nonstring" for a pcm_path that is not a string.               *)

Commands == {"absent", "ping", "shutdown", "transcribe"}

PcmPaths == {"absent", "/a.pcm"}

Line(k, c, p) == [kind |-> k, command |-> c, pcm_path |-> p]

Lines ==
    {Line("blank", "absent", "absent"), Line("badjson", "absent", "absent"),
     Line("nonobject", "absent", "absent"), Line("object", "absent", "nonstring")}
    \cup {Line("object", c, p) : c \in Commands, p \in PcmPaths}

NoLine == Line("none", "absent", "absent")

\* A request that sends the daemon to a PCM file
NamesFile(l) ==
    /\ l.kind = "object" /\ l.command \notin {"ping", "shutdown"}
    /\ l.pcm_path \in PcmPaths \ {"absent"}

\* line.strip() leaves nothing
IsBlank(l) == l.kind = "blank"


\* json_loads that lets every line through as a decoded value
json_loads_lenient(l) == [ok |-> TRUE, value |-> l, err |-> <<>>]

\* json.loads(line): the decoded value, or JSONDecodeError
json_loads(l) ==
    IF l.kind = "badjson"
    THEN [ok |-> FALSE, value |-> l, err |-> <<"<JSONDecodeError>">>]
    ELSE [ok |-> TRUE, value |-> l, err |-> <<>>]


\* get_command that answers None for a value without .get
get_command_lenient(v) ==
    [ok |-> TRUE, value |-> IF v.kind = "object" THEN v.command ELSE "absent",
     err |-> <<>>]

\* request.get("command"): only a dict has .get
get_command(v) ==
    IF v.kind = "object"
    THEN [ok |-> TRUE, value |-> v.command, err |-> <<>>]
    ELSE [ok |-> FALSE, value |-> "absent",
          err |-> <<"object has no attribute 'get'">>]

----------------------------------------------------------------------------
(* The file system and the inference engine, as the daemon sees them *)

File(e, r, n) == [exists |-> e, readable |-> r, samples |-> n]

Files == {File(FALSE, FALSE, 0), File(TRUE, FALSE, 0), File(TRUE, FALSE, 1),
          File(TRUE, TRUE, 0), File(TRUE, TRUE, 1)}

Attrs == {"text", "texts", "language", "confidence"}

\* A value returned by model.generate: its type, its length when it is a
\* list, and the attributes (object, first element of a list) or keys
\* (dict) it has, with their values.
Result(ty, n, has, text, language, confidence, texts) ==
    [type |-> ty, n |-> n, has |-> has, text |-> text, language |-> language,
     confidence |-> confidence, texts |-> texts]

Hi == PyStr(<<" ", "hi", " ">>)
En == PyStr(<<"en">>)
Conf == PyFloat("0.9")
Meta == {"language", "confidence"}

EngineResults ==
    {Result("list", 1, {"text"} \cup Meta, Hi, En, Conf, <<>>),
     Result("object", 0, {"text"} \cup Meta, Hi, En, Conf, <<>>),
     Result("object", 0, {"texts"} \cup Meta, PyNone, En, Conf, <<Hi>>),
     Result("dict", 0, {"text"} \cup Meta, Hi, En, Conf, <<>>),
     Result("dict", 0, {"texts"} \cup Meta, PyNone, En, Conf, <<Hi>>),
     Result("int", 0, {}, PyNone, PyNone, PyNone, <<>>),
     Result("list", 0, {}, PyNone, PyNone, PyNone, <<>>),
     Result("object", 0, {"texts"}, PyNone, PyNone, PyNone, <<>>),
     Result("dict", 0, {"texts"}, PyNone, PyNone, PyNone, <<>>),
     Result("list", 1, {}, PyNone, PyNone, PyNone, <<>>),
     Result("object", 0, {"text"}, PyStr(<<>>), PyNone, PyNone, <<>>),
     Result("object", 0, {"text"}, Conf, PyNone, PyNone, <<>>),
     Result("list", 1, {"text", "confidence"}, Hi, PyNone, PyArray, <<>>),
     Result("object", 0, {"text", "texts"}, Hi, PyNone, PyNone, <<En>>),
     Result("dict", 0, {"text", "texts"}, Hi, PyNone, PyNone, <<En>>)}

\* One call of get_logmel followed by model.generate: which of the two
\* raises, if any, and what generate returns
Engine(raises, result) == [raises |-> raises, result |-> result]

Engines ==
    {Engine("get_logmel", Result("int", 0, {}, PyNone, PyNone, PyNone, <<>>)),
     Engine("generate", Result("int", 0, {}, PyNone, PyNone, PyNone, <<>>))}
    \cup {Engine("none", r) : r \in EngineResults}

----------------------------------------------------------------------------
(* load_raw_pcm *)


\* load_raw_pcm with the size looked at before the permission
load_raw_pcm_raise_swapped(pcm_file_path, file) ==
    IF pcm_file_path = "nonstring" THEN <<"expected str, bytes or os.PathLike object">>
    ELSE IF ~file.exists THEN <<"PCM file not found: ", pcm_file_path>>
    ELSE IF file.samples = 0 THEN <<"PCM file is empty">>
    ELSE IF ~file.readable THEN <<"Cannot read PCM file: ", pcm_file_path>>
    ELSE <<>>

\* The exception raised inside the try block, "" when the samples are
\* returned
load_raw_pcm_raise(pcm_file_path, file) ==
    IF pcm_file_path = "nonstring" THEN <<"expected str, bytes or os.PathLike object">>
    ELSE IF ~file.exists THEN <<"PCM file not found: ", pcm_file_path>>
    ELSE IF ~file.readable THEN <<"Cannot read PCM file: ", pcm_file_path>>
    ELSE IF file.samples = 0 THEN <<"PCM file is empty">>
    ELSE <<>>

load_raw_pcm(pcm_file_path, file) ==
    LET e == load_raw_pcm_raise(pcm_file_path, file)
    IN  IF e = <<>>
        THEN [ok |-> TRUE, err |-> <<>>]
        ELSE [ok |-> FALSE, err |-> <<"Error loading PCM data: ">> \o e]

----------------------------------------------------------------------------
(* transcribe_audio *)


\* extract whose last branch keeps the initial text = "" of line 106
\* instead of raising
extract_lenient(r) ==
    LET attr(a) == IF a \in r.has THEN r[a] ELSE PyNone
    IN  IF r.type = "list" /\ r.n > 0
        THEN [ok |-> TRUE,
              text |-> IF "text" \in r.has THEN r.text ELSE PyStr(<<"<object>">>),
              language |-> attr("language"), confidence |-> attr("confidence")]
        ELSE IF r.type = "object" /\ "text" \in r.has
        THEN [ok |-> TRUE, text |-> r.text,
              language |-> attr("language"), confidence |-> attr("confidence")]
        ELSE IF r.type = "object" /\ "texts" \in r.has /\ Len(r.texts) > 0
        THEN [ok |-> TRUE, text |-> r.texts[1],
              language |-> PyNone, confidence |-> PyNone]
        ELSE IF r.type = "dict" /\ "text" \in r.has
        THEN [ok |-> TRUE, text |-> r.text,
              language |-> attr("language"), confidence |-> attr("confidence")]
        ELSE IF r.type = "dict" /\ "texts" \in r.has /\ Len(r.texts) > 0
        THEN [ok |-> TRUE, text |-> r.texts[1],
              language |-> PyNone, confidence |-> PyNone]
        ELSE [ok |-> TRUE, text |-> PyStr(<<>>),
              language |-> PyNone, confidence |-> PyNone]

\* Lines 105-134: text, language and confidence of an engine result
extract(r) ==
    LET attr(a) == IF a \in r.has THEN r[a] ELSE PyNone
    IN  IF r.type = "list" /\ r.n > 0
        THEN [ok |-> TRUE,
              text |-> IF "text" \in r.has THEN r.text ELSE PyStr(<<"<object>">>),
              language |-> attr("language"), confidence |-> attr("confidence")]
        ELSE IF r.type = "object" /\ "text" \in r.has
        THEN [ok |-> TRUE, text |-> r.text,
              language |-> attr("language"), confidence |-> attr("confidence")]
        ELSE IF r.type = "object" /\ "texts" \in r.has /\ Len(r.texts) > 0
        THEN [ok |-> TRUE, text |-> r.texts[1],
              language |-> PyNone, confidence |-> PyNone]
        ELSE IF r.type = "dict" /\ "text" \in r.has
        THEN [ok |-> TRUE, text |-> r.text,
              language |-> attr("language"), confidence |-> attr("confidence")]
        ELSE IF r.type = "dict" /\ "texts" \in r.has /\ Len(r.texts) > 0
        THEN [ok |-> TRUE, text |-> r.texts[1],
              language |-> PyNone, confidence |-> PyNone]
        ELSE [ok |-> FALSE, text |-> PyNone,
              language |-> PyNone, confidence |-> PyNone]

\* Line 136: text.strip() if text else ""
strip_text(text) ==
    IF ~Truthy(text) THEN [ok |-> TRUE, text |-> PyStr(<<>>)]
    ELSE IF text.t = "str" THEN [ok |-> TRUE, text |-> PyStr(strip(text.v))]
    ELSE [ok |-> FALSE, text |-> text]

transcribe_audio(m, pcm_file_path, file, eng) ==
    LET pcm == load_raw_pcm(pcm_file_path, file)
        x == extract(eng.result)
        t == strip_text(x.text)
    IN  IF m = "None" THEN ErrorTrace(<<"Model not initialized">>)
        ELSE IF ~pcm.ok THEN ErrorTrace(pcm.err)
        ELSE IF eng.raises = "get_logmel" THEN ErrorTrace(<<"<get_logmel error>">>)
        ELSE IF eng.raises = "generate" THEN ErrorTrace(<<"<generate error>">>)
        ELSE IF ~x.ok THEN ErrorTrace(<<"Cannot extract text from result: ", "<result>">>)
        ELSE IF ~t.ok THEN ErrorTrace(<<"object has no attribute 'strip'">>)
        ELSE Success(t.text, x.language, x.confidence)

\* What transcribe_audio reached outside the process
transcribe_touches(m, pcm_file_path, file) ==
    IF m = "None" THEN {}
    ELSE IF pcm_file_path = "nonstring" THEN {}
    ELSE IF ~load_raw_pcm(pcm_file_path, file).ok THEN {"fs"}
    ELSE {"fs", "engine"}

----------------------------------------------------------------------------
(* process_request *)


\* process_request without the check of lines 156-157
process_request_unchecked(m, request_data, file, eng) ==
    transcribe_audio(m, request_data.pcm_path, file, eng)

process_request(m, request_data, file, eng) ==
    IF request_data.pcm_path = "absent"
    THEN Status("error", <<"Missing 'pcm_path' in request">>)
    ELSE transcribe_audio(m, request_data.pcm_path, file, eng)

process_touches(m, request_data, file) ==
    IF request_data.pcm_path = "absent" THEN {}
    ELSE transcribe_touches(m, request_data.pcm_path, file)

\* The file load_raw_pcm looked at and the behaviour of the engine calls
\* made, NoFile / NoEngine when process_request did not get that far
NoFile == File(FALSE, FALSE, 0 - 1)

NoEngine == Engine("unused", Result("int", 0, {}, PyNone, PyNone, PyNone, <<>>))

NoEnv == [file |-> NoFile, eng |-> NoEngine]

process_env(m, request_data, file, eng) ==
    LET t == process_touches(m, request_data, file)
    IN  [file |-> IF "fs" \in t THEN file ELSE NoFile,
         eng |-> IF "engine" \in t THEN eng ELSE NoEngine]

----------------------------------------------------------------------------
(* The process *)

Init ==
    /\ pc = "start"
    /\ model = "None"
    /\ running = TRUE
    /\ out = <<>>
    /\ request = NoLine
    /\ response = Status("none", <<>>)
    /\ hist = <<>>
    /\ loads = <<>>
    /\ touched = {}
    /\ env = NoEnv
    /\ sigs = <<>>
    /\ eofAt = NoExit
    /\ exitCode = NoExit

\* The thread prints r for input line k and moves on to position next
Emit(r, k, next) ==
    /\ out' = print(r, k)
    /\ pc' = next



\* A handler that prints its status and leaves the running flag alone
signal_handler_noflag ==
    /\ pc # "exited"
    /\ Len(sigs) < MaxSignals
    /\ out' = print(Status("shutdown", <<"Daemon shutting down">>), 0)
    /\ sigs' = Append(sigs, [pc |-> pc, nread |-> Len(hist), nout |-> Len(out)])
    /\ UNCHANGED <<pc, model, running, request, response, hist, loads,
                   touched, eofAt, exitCode, env>>

\* A handler that ends the process itself, sys.exit(0), after its print
signal_handler_exits ==
    /\ pc # "exited"
    /\ Len(sigs) < MaxSignals
    /\ running' = FALSE
    /\ out' = print(Status("shutdown", <<"Daemon shutting down">>), 0)
    /\ sigs' = Append(sigs, [pc |-> pc, nread |-> Len(hist), nout |-> Len(out)])
    /\ pc' = "exited"
    /\ exitCode' = 0
    /\ UNCHANGED <<model, request, response, hist, loads, touched, eofAt,
                   env>>

\* A handler that raises into the loop, as the default SIGINT handler does:
\* lines 218-219 leave the loop at once
signal_handler_raises ==
    /\ pc # "exited"
    /\ Len(sigs) < MaxSignals
    /\ running' = FALSE
    /\ out' = print(Status("shutdown", <<"Daemon shutting down">>), 0)
    /\ sigs' = Append(sigs, [pc |-> pc, nread |-> Len(hist), nout |-> Len(out)])
    /\ pc' = IF pc \in {"read", "dispatch", "respond", "shutdown_print"}
             THEN "stopping" ELSE pc
    /\ UNCHANGED <<model, request, response, hist, loads, touched, eofAt,
                   exitCode, env>>

\* _signal_handler: runs between two statements of the main thread, at any
\* position, for as long as the process lives
signal_handler ==
    /\ pc # "exited"
    /\ Len(sigs) < MaxSignals
    /\ running' = FALSE
    /\ out' = print(Status("shutdown", <<"Daemon shutting down">>), 0)
    /\ sigs' = Append(sigs, [pc |-> pc, nread |-> Len(hist), nout |-> Len(out)])
    /\ UNCHANGED <<pc, model, request, response, hist, loads, touched, eofAt,
                   exitCode, env>>

\* run_daemon, line 173
Starting ==
    /\ pc = "start"
    /\ Emit(Status("starting", <<"Parakeet daemon starting...">>), 0, "init")
    /\ UNCHANGED <<model, running, request, response, hist, loads, touched,
                   sigs, eofAt, exitCode, env>>

\* initialize_model, line 47
Loading ==
    /\ pc = "init"
    /\ Emit(Status("loading", <<"Loading Parakeet v3 model...">>), 0, "load_offline")
    /\ UNCHANGED <<model, running, request, response, hist, loads, touched,
                   sigs, eofAt, exitCode, env>>

\* line 51: from_pretrained(self.model_repo, local_files_only=True)
LoadOffline ==
    /\ pc = "load_offline"
    /\ \E ok \in BOOLEAN :
          /\ loads' = Append(loads, [mode |-> "offline", ok |-> ok])
          /\ model' = IF ok THEN "Model" ELSE model
          /\ pc' = IF ok THEN "ready_offline" ELSE "warn"
    /\ UNCHANGED <<running, out, request, response, hist, touched, sigs,
                   eofAt, exitCode, env>>

\* line 52
ReadyOffline ==
    /\ pc = "ready_offline"
    /\ Emit(Status("ready", <<"Model loaded offline successfully">>), 0, "init_ok")
    /\ UNCHANGED <<model, running, request, response, hist, loads, touched,
                   sigs, eofAt, exitCode, env>>


\* Warning without line 54: the fallback starts with no warning printed
Warning_silent ==
    /\ pc = "warn"
    /\ pc' = "fallback"
    /\ UNCHANGED <<model, running, out, request, response, hist, loads,
                   touched, sigs, eofAt, exitCode, env>>

\* line 54
Warning ==
    /\ pc = "warn"
    /\ Emit(Status("warning", <<"Offline loading failed: ", "<offline_error>">>),
            0, "fallback")
    /\ UNCHANGED <<model, running, request, response, hist, loads, touched,
                   sigs, eofAt, exitCode, env>>

\* line 55
Fallback ==
    /\ pc = "fallback"
    /\ Emit(Status("loading", <<"Falling back to online loading...">>), 0,
            "load_online")
    /\ UNCHANGED <<model, running, request, response, hist, loads, touched,
                   sigs, eofAt, exitCode, env>>


\* LoadOnline that drops the model from_pretrained returns
LoadOnline_forgets ==
    /\ pc = "load_online"
    /\ \E ok \in BOOLEAN :
          /\ loads' = Append(loads, [mode |-> "online", ok |-> ok])
          /\ pc' = IF ok THEN "ready_online" ELSE "init_error"
    /\ UNCHANGED <<model, running, out, request, response, hist, touched,
                   sigs, eofAt, exitCode, env>>

\* line 56: from_pretrained(self.model_repo)
LoadOnline ==
    /\ pc = "load_online"
    /\ \E ok \in BOOLEAN :
          /\ loads' = Append(loads, [mode |-> "online", ok |-> ok])
          /\ model' = IF ok THEN "Model" ELSE model
          /\ pc' = IF ok THEN "ready_online" ELSE "init_error"
    /\ UNCHANGED <<running, out, request, response, hist, touched, sigs,
                   eofAt, exitCode, env>>

\* line 57
ReadyOnline ==
    /\ pc = "ready_online"
    /\ Emit(Status("ready", <<"Model loaded online successfully">>), 0, "init_ok")
    /\ UNCHANGED <<model, running, request, response, hist, loads, touched,
                   sigs, eofAt, exitCode, env>>

\* lines 61-64: the outer except of initialize_model, return False
InitError ==
    /\ pc = "init_error"
    /\ Emit(Status("error", <<"Failed to load model: ", "<e>">>), 0, "init_failed")
    /\ UNCHANGED <<model, running, request, response, hist, loads, touched,
                   sigs, eofAt, exitCode, env>>


\* ExitFailure without sys.exit(1): run_daemon goes on to the listen phase
ExitFailure_ignored ==
    /\ pc = "init_failed"
    /\ pc' = "init_ok"
    /\ UNCHANGED <<model, running, out, request, response, hist, loads,
                   touched, sigs, eofAt, exitCode, env>>

\* lines 176-177: sys.exit(1)
ExitFailure ==
    /\ pc = "init_failed"
    /\ pc' = "exited"
    /\ exitCode' = 1
    /\ UNCHANGED <<model, running, out, request, response, hist, loads,
                   touched, sigs, eofAt, env>>

\* line 179
Listening ==
    /\ pc = "init_ok"
    /\ Emit(Status("listening", <<"Daemon ready for requests">>), 0, "loop")
    /\ UNCHANGED <<model, running, request, response, hist, loads, touched,
                   sigs, eofAt, exitCode, env>>


\* LoopCheck of a loop written `while True`
LoopCheck_forever ==
    /\ pc = "loop"
    /\ pc' = "read"
    /\ UNCHANGED <<model, running, out, request, response, hist, loads,
                   touched, sigs, eofAt, exitCode, env>>

\* line 182: while self.running
LoopCheck ==
    /\ pc = "loop"
    /\ pc' = IF running THEN "read" ELSE "stopping"
    /\ UNCHANGED <<model, running, out, request, response, hist, loads,
                   touched, sigs, eofAt, exitCode, env>>

\* line 185: sys.stdin.readline() returns a line the caller wrote
ReadLine ==
    /\ pc = "read"
    /\ Len(hist) < MaxLines
    /\ \E l \in Lines :
          /\ NamesFile(l) =>
                Cardinality({k \in DOMAIN hist : NamesFile(hist[k])}) < MaxAudio
          /\ request' = l
          /\ hist' = Append(hist, l)
    /\ touched' = {}
    /\ pc' = "dispatch"
    /\ UNCHANGED <<model, running, out, response, loads, sigs, eofAt,
                   exitCode, env>>


\* ReadEOF without lines 187-188: the empty string goes to json.loads, which
\* rejects it
ReadEOF_parsed ==
    /\ pc = "read"
    /\ eofAt' = Len(out)
    /\ Emit(Status("error", <<"Invalid JSON: ", "<JSONDecodeError>">>), 0,
            "stopping")
    /\ UNCHANGED <<model, running, request, response, hist, loads, touched,
                   sigs, exitCode, env>>

\* lines 185-188: readline() returns "" at end of input, break
ReadEOF ==
    /\ pc = "read"
    /\ eofAt' = Len(out)
    /\ pc' = "stopping"
    /\ UNCHANGED <<model, running, out, request, response, hist, loads,
                   touched, sigs, exitCode, env>>


\* BlankLine without lines 190-192: the empty string goes to json.loads,
\* which rejects it
BlankLine_parsed ==
    /\ pc = "dispatch"
    /\ IsBlank(request)
    /\ Emit(Status("error", <<"Invalid JSON: ", "<JSONDecodeError>">>),
            Len(hist), "loop")
    /\ UNCHANGED <<model, running, request, response, hist, loads, touched,
                   sigs, eofAt, exitCode, env>>

\* lines 190-192: an empty line after strip(), continue
BlankLine ==
    /\ pc = "dispatch"
    /\ IsBlank(request)
    /\ pc' = "loop"
    /\ UNCHANGED <<model, running, out, request, response, hist, loads,
                   touched, sigs, eofAt, exitCode, env>>

\* lines 195-200: json.loads raises JSONDecodeError, continue
InvalidJson ==
    /\ pc = "dispatch"
    /\ ~IsBlank(request)
    /\ ~json_loads(request).ok
    /\ Emit(Status("error", <<"Invalid JSON: ">> \o json_loads(request).err),
            Len(hist), "loop")
    /\ UNCHANGED <<model, running, request, response, hist, loads, touched,
                   sigs, eofAt, exitCode, env>>

\* line 203 raises and lines 220-226 catch: the decoded value has no .get
DaemonError ==
    /\ pc = "dispatch"
    /\ ~IsBlank(request)
    /\ json_loads(request).ok
    /\ ~get_command(json_loads(request).value).ok
    /\ Emit(ErrorTrace(<<"Daemon error: ">>
                       \o get_command(json_loads(request).value).err),
            Len(hist), "loop")
    /\ UNCHANGED <<model, running, request, response, hist, loads, touched,
                   sigs, eofAt, exitCode, env>>


\* command_of that takes a request without command for a ping
command_of_default(l) ==
    IF ~IsBlank(l) /\ json_loads(l).ok /\ get_command(json_loads(l).value).ok
    THEN (IF get_command(json_loads(l).value).value = "absent" THEN "ping"
          ELSE get_command(json_loads(l).value).value)
    ELSE "none"

\* The command of a decoded object, "none" when the line has none to look at
command_of(l) ==
    IF ~IsBlank(l) /\ json_loads(l).ok /\ get_command(json_loads(l).value).ok
    THEN get_command(json_loads(l).value).value
    ELSE "none"


\* Ping that looks at pcm_path before it looks at the command
Ping_viaPath ==
    /\ pc = "dispatch"
    /\ command_of(request) = "ping"
    /\ IF request.pcm_path = "absent"
       THEN /\ Emit(Status("pong", <<"Daemon is alive">>), Len(hist), "loop")
            /\ UNCHANGED <<response, touched, env>>
       ELSE /\ \E file \in Files, eng \in Engines :
                  /\ response' = process_request(model, request, file, eng)
                  /\ touched' = touched \cup process_touches(model, request, file)
                  /\ env' = process_env(model, request, file, eng)
            /\ pc' = "respond"
            /\ UNCHANGED out
    /\ UNCHANGED <<model, running, request, hist, loads, sigs, eofAt, exitCode>>

\* lines 203-206, continue
Ping ==
    /\ pc = "dispatch"
    /\ command_of(request) = "ping"
    /\ Emit(Status("pong", <<"Daemon is alive">>), Len(hist), "loop")
    /\ UNCHANGED <<model, running, request, response, hist, loads, touched,
                   sigs, eofAt, exitCode, env>>


\* Shutdown handled like ping: the response is printed and the loop goes on
Shutdown_continues ==
    /\ pc = "dispatch"
    /\ command_of(request) = "shutdown"
    /\ Emit(Status("shutdown", <<"Shutting down gracefully">>), Len(hist),
            "loop")
    /\ UNCHANGED <<model, running, request, response, hist, loads, touched,
                   sigs, eofAt, exitCode, env>>

\* lines 208-209
Shutdown ==
    /\ pc = "dispatch"
    /\ command_of(request) = "shutdown"
    /\ running' = FALSE
    /\ pc' = "shutdown_print"
    /\ UNCHANGED <<model, out, request, response, hist, loads, touched, sigs,
                   eofAt, exitCode, env>>

\* lines 210-212, break
ShutdownPrint ==
    /\ pc = "shutdown_print"
    /\ Emit(Status("shutdown", <<"Shutting down gracefully">>), Len(hist),
            "stopping")
    /\ UNCHANGED <<model, running, request, response, hist, loads, touched,
                   sigs, eofAt, exitCode, env>>

\* line 215: response = self.process_request(request)
ProcessRequest ==
    /\ pc = "dispatch"
    /\ command_of(request) \in {"absent", "transcribe"}
    /\ \E file \in Files, eng \in Engines :
          /\ response' = process_request(model, request, file, eng)
          /\ touched' = touched \cup process_touches(model, request, file)
          /\ env' = process_env(model, request, file, eng)
    /\ pc' = "respond"
    /\ UNCHANGED <<model, running, out, request, hist, loads, sigs, eofAt,
                   exitCode>>


\* Respond without line 216: the response is computed and never printed
Respond_silent ==
    /\ pc = "respond"
    /\ pc' = "loop"
    /\ env' = NoEnv
    /\ UNCHANGED <<model, running, out, request, response, hist, loads,
                   touched, sigs, eofAt, exitCode>>

\* Respond without the handler of lines 220-226: a response json.dumps
\* rejects ends the process
Respond_uncaught ==
    /\ pc = "respond"
    /\ IF json_dumps_ok(response)
       THEN Emit(response, Len(hist), "loop") /\ UNCHANGED exitCode
       ELSE pc' = "exited" /\ exitCode' = 1 /\ UNCHANGED out
    /\ env' = NoEnv
    /\ UNCHANGED <<model, running, request, response, hist, loads, touched,
                   sigs, eofAt>>

\* line 216, and lines 220-226 when json.dumps raises
Respond ==
    /\ pc = "respond"
    /\ IF json_dumps_ok(response)
       THEN Emit(response, Len(hist), "loop")
       ELSE Emit(ErrorTrace(<<"Daemon error: ", "not JSON serializable">>),
                 Len(hist), "loop")
    /\ env' = NoEnv
    /\ UNCHANGED <<model, running, request, response, hist, loads, touched,
                   sigs, eofAt, exitCode>>

\* line 228
Stopped ==
    /\ pc = "stopping"
    /\ Emit(Status("stopped", <<"Daemon stopped">>), 0, "returned")
    /\ UNCHANGED <<model, running, request, response, hist, loads, touched,
                   sigs, eofAt, exitCode, env>>

\* lines 231-238: run_daemon and main return, the interpreter exits
ExitClean ==
    /\ pc = "returned"
    /\ pc' = "exited"
    /\ exitCode' = 0
    /\ UNCHANGED <<model, running, out, request, response, hist, loads,
                   touched, sigs, eofAt, env>>

Next ==
    \/ signal_handler
    \/ Starting \/ Loading \/ LoadOffline \/ ReadyOffline \/ Warning
    \/ Fallback \/ LoadOnline \/ ReadyOnline \/ InitError \/ ExitFailure
    \/ Listening \/ LoopCheck \/ ReadLine \/ ReadEOF \/ BlankLine
    \/ InvalidJson \/ DaemonError \/ Ping \/ Shutdown \/ ShutdownPrint
    \/ ProcessRequest \/ Respond \/ Stopped \/ ExitClean

Spec == Init /\ [][Next]_vars

\* The steps the thread takes on its own: every call it makes returns.
\* readline() returns when the caller writes or closes, and a signal comes
\* when it is sent; neither is the daemon's to take.
MainStep ==
    \/ Starting \/ Loading \/ LoadOffline \/ ReadyOffline \/ Warning
    \/ Fallback \/ LoadOnline \/ ReadyOnline \/ InitError \/ ExitFailure
    \/ Listening \/ LoopCheck \/ BlankLine \/ InvalidJson \/ DaemonError
    \/ Ping \/ Shutdown \/ ShutdownPrint \/ ProcessRequest \/ Respond
    \/ Stopped \/ ExitClean

FairSpec == Spec /\ WF_vars(MainStep)

----------------------------------------------------------------------------
(* Properties *)

\* Positions of out that answer input line k
Answers(k) == {i \in DOMAIN out : out[i].req = k}

\* Line k has been read and the iteration that reads it is over
Handled(k) ==
    /\ k \in DOMAIN hist
    /\ k < Len(hist) \/ pc \notin {"dispatch", "respond", "shutdown_print"}

\* A line that decodes to a JSON object
IsRequest(l) == l.kind = "object"

HasStatus(st) == \E i \in DOMAIN out : out[i].line.status = st

\* C1: every request line read in the listen loop gets exactly one
\* response, the response is on the output before the next line is read,
\* and responses appear in the order of their requests.
C1_OneResponseInOrder ==
    /\ \A k \in DOMAIN hist :
          IsRequest(hist[k]) =>
             /\ Cardinality(Answers(k)) <= 1
             /\ Handled(k) => Cardinality(Answers(k)) = 1
    /\ \A i, j \in DOMAIN out :
          (i < j /\ out[i].req > 0 /\ out[j].req > 0) => out[i].req < out[j].req
    /\ \A i \in DOMAIN out : out[i].req <= Len(hist)

\* C1 witness: a ping and then a transcribe request, both answered, in order
C1_Witness ==
    /\ Len(hist) = 2 /\ pc = "loop"
    /\ command_of(hist[1]) = "ping" /\ command_of(hist[2]) = "absent"
    /\ hist[2].pcm_path = "/a.pcm"
    /\ \E i, j \in DOMAIN out :
          /\ i < j /\ out[i].req = 1 /\ out[j].req = 2
          /\ out[i].line.status = "pong" /\ out[j].line.status = "success"

\* The current line takes the transcription path
IsTranscribe(l) == command_of(l) \in {"absent", "transcribe"}

\* The response a transcribe request holds is a failure
Failed(r) == r.status = "error" \/ ~json_dumps_ok(r)

\* C2: servicing a transcribe request never ends the daemon.  The steps of
\* the main thread that service it leave the running flag and the exit
\* status alone, print exactly one line for the request, an error line
\* whenever the request failed, and return to the head of the loop, from
\* where a daemon that is still running reads the next line.
C2_TranscribeNeverTerminates ==
    [][/\ (pc = "dispatch" /\ IsTranscribe(request) /\ pc' # pc) =>
             /\ pc' = "respond" /\ out' = out
             /\ running' = running /\ exitCode' = NoExit
       /\ (pc = "respond" /\ pc' # pc) =>
             /\ pc' = "loop" /\ running' = running /\ exitCode' = NoExit
             /\ Len(out') = Len(out) + 1
             /\ out'[Len(out')].req = Len(hist)
             /\ out'[Len(out')].line.status \in {"success", "error"}
             /\ Failed(response) => out'[Len(out')].line.status = "error"
       /\ (pc = "loop" /\ running /\ pc' # pc) => pc' = "read"
      ]_vars

\* C2 witness: a transcribe request whose result json.dumps rejects got
\* an error response, and the daemon went on to read the next line
C2_Witness ==
    /\ Len(hist) = 2 /\ pc = "dispatch" /\ IsTranscribe(hist[1])
    /\ running /\ exitCode = NoExit
    /\ \E i \in DOMAIN out :
          /\ out[i].req = 1 /\ out[i].line.status = "error"
          /\ out[i].line.message = <<"Daemon error: ", "not JSON serializable">>

\* C3: a line that is not JSON gets exactly one response, an error whose
\* message starts with "Invalid JSON: "; handling it keeps the daemon in the
\* loop with the running flag untouched, and a request line that follows it
\* is answered exactly once.
C3_InvalidJsonIsReported ==
    /\ [](\A k \in DOMAIN hist :
            hist[k].kind = "badjson" =>
               /\ Cardinality(Answers(k)) <= 1
               /\ Handled(k) => Cardinality(Answers(k)) = 1
               /\ \A i \in Answers(k) :
                     /\ out[i].line.status = "error"
                     /\ Head(out[i].line.message) = "Invalid JSON: "
               /\ (Handled(k + 1) /\ IsRequest(hist[k + 1])) =>
                     Cardinality(Answers(k + 1)) = 1)
    /\ [][(pc = "dispatch" /\ request.kind = "badjson" /\ pc' # pc) =>
             (pc' = "loop" /\ running' = running /\ exitCode' = NoExit)]_vars

\* C3 witness: a line that is not JSON was reported, and the ping after it
\* was answered
C3_Witness ==
    /\ Len(hist) = 2 /\ pc = "loop"
    /\ hist[1].kind = "badjson" /\ command_of(hist[2]) = "ping"
    /\ \E i, j \in DOMAIN out :
          /\ i < j /\ out[i].req = 1 /\ out[j].req = 2
          /\ Head(out[i].line.message) = "Invalid JSON: "
          /\ out[j].line.status = "pong"

\* Positions of out that hold the stopped line
StoppedAt == {i \in DOMAIN out : out[i].line.status = "stopped"}

\* C4: a shutdown request is the last line read.  It gets exactly one
\* response, the shutdown line of the loop; no response to any input line
\* follows it; the thread goes on to print stopped and the process exits
\* with status 0, wherever a signal is delivered.
C4_ShutdownStops ==
    \A k \in DOMAIN hist :
       command_of(hist[k]) = "shutdown" =>
          /\ k = Len(hist)
          /\ pc \in {"dispatch", "shutdown_print", "stopping", "returned",
                     "exited"}
          /\ exitCode \in {NoExit, 0}
          /\ pc = "exited" => exitCode = 0
          /\ Handled(k) =>
                \E i \in DOMAIN out :
                   /\ Answers(k) = {i}
                   /\ out[i].line =
                         Status("shutdown", <<"Shutting down gracefully">>)
                   /\ \A j \in DOMAIN out : j > i => out[j].req = 0
                   /\ pc \in {"returned", "exited"} =>
                         \E j \in StoppedAt : j > i

\* C4 witness: a shutdown request served to the end while a signal arrived
\* between line 209 and line 211
C4_Witness ==
    /\ pc = "exited" /\ exitCode = 0
    /\ Len(hist) = 2 /\ command_of(hist[2]) = "shutdown"
    /\ Len(sigs) = 1 /\ sigs[1].pc = "shutdown_print"

BothLoadsFailed == Len(loads) = 2 /\ ~loads[1].ok /\ ~loads[2].ok

\* C5: when the offline and the online load both fail, the listening line
\* and the stopped line are never printed, no input line is read or
\* answered, and the process exits with a status other than 0.
C5_LoadFailureIsFatal ==
    BothLoadsFailed =>
       /\ pc \in {"init_error", "init_failed", "exited"}
       /\ ~HasStatus("listening") /\ ~HasStatus("stopped")
       /\ hist = <<>> /\ touched = {}
       /\ \A i \in DOMAIN out : out[i].req = 0
       /\ model = "None"
       /\ exitCode \in {NoExit, 1}
       /\ pc = "exited" => exitCode = 1

\* C5 witness: both loads failed and the process has exited
C5_Witness == BothLoadsFailed /\ pc = "exited" /\ exitCode = 1

ReadyAt == {i \in DOMAIN out : out[i].line.status = "ready"}

\* C6: the first load is the offline one; the online load happens at most
\* once, only after the offline load failed and the warning was printed;
\* ready is printed at most once and only after a load that succeeded, and
\* a load that succeeded is followed by ready.
C6_OfflineThenOnline ==
    /\ Len(loads) <= 2
    /\ Len(loads) >= 1 => loads[1].mode = "offline"
    /\ Len(loads) = 2 =>
          /\ loads[2].mode = "online" /\ ~loads[1].ok
          /\ HasStatus("warning")
    /\ Cardinality(ReadyAt) <= 1
    /\ ReadyAt # {} => \E n \in DOMAIN loads : loads[n].ok
    /\ (\E n \in DOMAIN loads : loads[n].ok) =>
          (ReadyAt # {} \/ pc \in {"ready_offline", "ready_online"})
    /\ \A i \in ReadyAt :
          (out[i].line.message = <<"Model loaded offline successfully">>)
             = (Len(loads) = 1)

\* C6 witness: the offline load failed, the online load succeeded, ready
\* was printed
C6_Witness ==
    /\ Len(loads) = 2 /\ loads[2].ok /\ ReadyAt # {} /\ pc = "init_ok"

\* C7: once readline() has met end of input the thread leaves the loop,
\* prints stopped and exits with status 0; nothing is printed after the
\* end of input but stopped and the status line of a signal, so no error.
C7_EofStopsCleanly ==
    eofAt # NoExit =>
       /\ pc \in {"stopping", "returned", "exited"}
       /\ \A i \in DOMAIN out :
             i > eofAt => /\ out[i].req = 0
                          /\ out[i].line.status \in {"stopped", "shutdown"}
       /\ pc \in {"returned", "exited"} => \E i \in StoppedAt : i > eofAt
       /\ exitCode \in {NoExit, 0}
       /\ pc = "exited" => exitCode = 0

\* C7 witness: end of input after a request was served, process exited
C7_Witness ==
    /\ eofAt # NoExit /\ pc = "exited" /\ Len(hist) = 1
    /\ IsRequest(hist[1]) /\ Cardinality(Answers(1)) = 1

SignalLine == [line |-> Status("shutdown", <<"Daemon shutting down">>), req |-> 0]

InFlight == {"dispatch", "respond", "shutdown_print"}

\* C9: the signal handler sets running to false, prints its shutdown status
\* and changes nothing else, in particular not the position of the main
\* thread.  A signal delivered while a line is being served leaves that
\* line its one response, printed after the signal's status line and
\* before the thread leaves the loop, and no further line is read.
C9_SignalDoesNotInterrupt ==
    /\ [][Len(sigs') > Len(sigs) =>
             /\ running' = FALSE
             /\ out' = Append(out, SignalLine)
             /\ UNCHANGED <<pc, model, request, response, hist, loads,
                            touched, eofAt, exitCode, env>>]_vars
    /\ [](\A n \in DOMAIN sigs :
            (sigs[n].pc \in InFlight /\ ~IsBlank(hist[sigs[n].nread])) =>
               /\ Len(hist) = sigs[n].nread
               /\ pc # "read"
               /\ pc \notin InFlight =>
                     /\ Cardinality(Answers(sigs[n].nread)) = 1
                     /\ \A i \in Answers(sigs[n].nread) : i > sigs[n].nout + 1)

\* C9 witness: a signal arrived between process_request and the print of
\* its response; the success response was printed and the process exited
C9_Witness ==
    /\ pc = "exited" /\ exitCode = 0
    /\ Len(sigs) = 1 /\ sigs[1].pc = "respond" /\ Len(hist) = 1
    /\ \E i \in Answers(1) : out[i].line.status = "success"

\* C10: the step that serves a ping prints the pong line for it and goes
\* back to the head of the loop; it does not change running, model or the
\* pending response, and the iteration has touched neither the file system
\* nor the engine, whether or not the request carries a pcm_path.
C10_PingIsPure ==
    /\ [][(pc = "dispatch" /\ command_of(request) = "ping" /\ pc' # pc) =>
             /\ out' = print(Status("pong", <<"Daemon is alive">>), Len(hist))
             /\ pc' = "loop"
             /\ touched = {} /\ touched' = {}
             /\ UNCHANGED <<running, model, response, exitCode, env>>]_vars
    /\ [](\A k \in DOMAIN hist :
            (command_of(hist[k]) = "ping" /\ Handled(k)) =>
               \E i \in DOMAIN out :
                  Answers(k) = {i} /\ out[i].line.status = "pong")

\* C10 witness: two pings in a row, the second carrying a pcm_path, both
\* answered with pong
C10_Witness ==
    /\ Len(hist) = 2 /\ pc = "loop" /\ running /\ model = "Model"
    /\ command_of(hist[1]) = "ping" /\ command_of(hist[2]) = "ping"
    /\ hist[2].pcm_path = "/a.pcm"
    /\ \A k \in {1, 2} : \E i \in Answers(k) : out[i].line.status = "pong"

MissingPath == Status("error", <<"Missing 'pcm_path' in request">>)

\* C11: a request on the transcription path that has no pcm_path gets the
\* error "Missing 'pcm_path' in request" as its one response, and serving
\* it uses neither the file system nor the engine.
C11_MissingPathIsReported ==
    /\ [][(pc = "dispatch" /\ IsTranscribe(request)
           /\ request.pcm_path = "absent" /\ pc' # pc) =>
             /\ response' = MissingPath /\ pc' = "respond"
             /\ touched' = {} /\ env' = NoEnv /\ model' = model]_vars
    /\ [](\A k \in DOMAIN hist :
            (IsTranscribe(hist[k]) /\ hist[k].pcm_path = "absent") =>
               /\ k = Len(hist) => (touched = {} /\ env = NoEnv)
               /\ Handled(k) =>
                     \E i \in DOMAIN out :
                        Answers(k) = {i} /\ out[i].line = MissingPath)

\* C11 witness: a request with an unknown command and no pcm_path was
\* answered
C11_Witness ==
    /\ Len(hist) = 1 /\ pc = "loop" /\ hist[1].command = "transcribe"
    /\ hist[1].pcm_path = "absent" /\ touched = {}
    /\ \E i \in Answers(1) : out[i].line = MissingPath

\* The engine returned a value to the current request
Generated == pc = "respond" /\ env.eng.raises = "none"

\* The five recognized shapes carrying one text / language / confidence
FiveShapes(text, language, confidence) ==
    {Result("list", 1, {"text"} \cup Meta, text, language, confidence, <<>>),
     Result("object", 0, {"text"} \cup Meta, text, language, confidence, <<>>),
     Result("object", 0, {"texts"} \cup Meta, PyNone, language, confidence,
            <<text>>),
     Result("dict", 0, {"text"} \cup Meta, text, language, confidence, <<>>),
     Result("dict", 0, {"texts"} \cup Meta, PyNone, language, confidence,
            <<text>>)}

\* C12: when the engine returns the text " hi ", the language "en" and the
\* confidence 0.9 in any of the five recognized shapes, the response is the
\* one success response with text "hi", language "en", confidence 0.9.
C12_FiveShapesAgree ==
    (Generated /\ env.eng.result \in FiveShapes(Hi, En, Conf)) =>
       response = Success(PyStr(<<"hi">>), En, Conf)

\* The result has one of the five recognized shapes
Recognized(r) ==
    \/ r.type = "list" /\ r.n > 0
    \/ r.type \in {"object", "dict"} /\ "text" \in r.has
    \/ r.type \in {"object", "dict"} /\ "texts" \in r.has /\ Len(r.texts) > 0

\* The text the priority order selects from a recognized result
Selected(r) ==
    IF r.type = "list" THEN (IF "text" \in r.has THEN r.text
                             ELSE PyStr(<<"<object>">>))
    ELSE IF "text" \in r.has THEN r.text
    ELSE r.texts[1]

\* C13: a result of none of the five shapes gets the error "Cannot extract
\* text from result", never a success; a result of a recognized shape that
\* gets a success carries the text the priority order selects (text before
\* texts), stripped.
C13_UnrecognizedShapeIsError ==
    Generated =>
       /\ ~Recognized(env.eng.result) =>
             response = ErrorTrace(<<"Cannot extract text from result: ",
                                     "<result>">>)
       /\ (Recognized(env.eng.result) /\ response.status = "success") =>
             response.text = strip_text(Selected(env.eng.result)).text
       /\ response.status \in {"success", "error"}

\* C13 witness: the engine returned an integer and the response is an error
C13_Witness ==
    /\ Generated /\ env.eng.result.type = "int"
    /\ response.status = "error" /\ response.text = Absent

PcmError(reason) == ErrorTrace(<<"Error loading PCM data: ">> \o reason)

\* C14: a pcm_path that cannot be loaded gets an error whose reason is
\* "PCM file not found" when the file does not exist, "Cannot read PCM
\* file" when it exists and is not readable, "PCM file is empty" when it is
\* readable and holds no sample: three different reasons, decided in that
\* order, and the engine is not called.
C14_LoadErrorsAreDistinct ==
    (pc = "respond" /\ env.file # NoFile) =>
       LET f == env.file
           p == request.pcm_path
       IN  /\ ~f.exists =>
                 response = PcmError(<<"PCM file not found: ", p>>)
           /\ (f.exists /\ ~f.readable) =>
                 response = PcmError(<<"Cannot read PCM file: ", p>>)
           /\ (f.exists /\ f.readable /\ f.samples = 0) =>
                 response = PcmError(<<"PCM file is empty">>)
           /\ (f.exists /\ f.readable /\ f.samples > 0) =>
                 (response.message # <<>> =>
                     Head(response.message) # "Error loading PCM data: ")
           /\ (~f.exists \/ ~f.readable \/ f.samples = 0) =>
                 (env.eng = NoEngine /\ touched = {"fs"})

\* C14 witness: a file that is both unreadable and empty is reported as
\* unreadable
C14_Witness ==
    /\ pc = "respond" /\ env.file = File(TRUE, FALSE, 0)
    /\ response = PcmError(<<"Cannot read PCM file: ", "/a.pcm">>)

\* C15: a line of white space only gets no response; the step that drops
\* it prints nothing, leaves model, running and the exit status alone and
\* goes back to the head of the loop.
C15_BlankLineIsDropped ==
    /\ [][(pc = "dispatch" /\ IsBlank(request) /\ pc' # pc) =>
             /\ pc' = "loop"
             /\ UNCHANGED <<out, model, running, response, touched,
                            exitCode, eofAt>>]_vars
    /\ [](\A k \in DOMAIN hist : IsBlank(hist[k]) => Answers(k) = {})

\* C15 witness: a blank line was dropped, nothing was printed for it, and
\* the next line has been read
C15_Witness ==
    /\ Len(hist) = 2 /\ IsBlank(hist[1]) /\ pc = "dispatch"
    /\ Len(out) = 4 /\ out[4].line.status = "listening" /\ running

ListenPhase == {"loop", "read", "dispatch", "respond", "shutdown_print"}

\* C16: self.model changes only in the two load steps of initialize_model;
\* in the listen phase it is the loaded model, so no response is the error
\* "Model not initialized".
C16_ModelIsStable ==
    /\ [][model' # model =>
             (pc \in {"load_offline", "load_online"} /\ model' = "Model")]_vars
    /\ [](/\ (pc \in ListenPhase \/ hist # <<>>) => model = "Model"
          /\ response.message # <<"Model not initialized">>
          /\ \A i \in DOMAIN out :
                out[i].line.message # <<"Model not initialized">>)

\* C16 witness: the model loaded by the online fallback served a
\* transcription
C16_Witness ==
    /\ Len(loads) = 2 /\ model = "Model" /\ pc = "loop"
    /\ \E i \in DOMAIN out : out[i].line.status = "success"

\* Responses to input lines printed after the n-th signal's status line
AnswersAfter(n) ==
    {i \in DOMAIN out : i > sigs[n].nout + 1 /\ out[i].req > 0}

\* C17: after a signal delivered in the listen phase the thread reads at
\* most one more line and prints at most one more response.
C17_AtMostOneMoreLine ==
    \A n \in DOMAIN sigs :
       sigs[n].pc \in ListenPhase =>
          /\ Len(hist) - sigs[n].nread <= 1
          /\ Cardinality(AnswersAfter(n)) <= 1

\* C17 witness: a signal arrived during a blocked readline(); one more
\* line was read and answered, then the process stopped
C17_Witness ==
    /\ pc = "exited" /\ Len(sigs) = 1 /\ sigs[1].pc = "read"
    /\ Len(hist) = sigs[1].nread + 1
    /\ Cardinality(AnswersAfter(1)) = 1

\* C19: what the loop does with a decoded object depends on its command
\* alone.  ping prints pong and shutdown clears running and goes on to its
\* response, both without process_request even when the object carries a
\* pcm_path; an object with no command or any other command goes through
\* process_request, which requires pcm_path, and leaves running alone.
C19_DispatchByCommand ==
    [][(pc = "dispatch" /\ request.kind = "object" /\ pc' # pc) =>
          /\ request.command = "ping" =>
                /\ pc' = "loop" /\ out' = print(Status("pong",
                                     <<"Daemon is alive">>), Len(hist))
                /\ UNCHANGED <<response, touched, env, running>>
          /\ request.command = "shutdown" =>
                /\ pc' = "shutdown_print" /\ ~running'
                /\ UNCHANGED <<response, touched, env, out>>
          /\ request.command \in {"absent", "transcribe"} =>
                /\ pc' = "respond" /\ running' = running /\ out' = out
                /\ (request.pcm_path = "absent") = (response' = MissingPath)
                /\ request.pcm_path = "/a.pcm" => "fs" \in touched'
      ]_vars

\* C19 witness: a shutdown request that carries a pcm_path was served
\* without the transcription path
C19_Witness ==
    /\ pc = "stopping" /\ Len(hist) = 1 /\ hist[1].command = "shutdown"
    /\ hist[1].pcm_path = "/a.pcm" /\ touched = {} /\ env = NoEnv
    /\ \E i \in Answers(1) : out[i].line.status = "shutdown"

\* C20: a line that decodes to a JSON value other than an object gets
\* exactly one response, the "Daemon error" line of the outer handler; the
\* step goes back to the head of the loop and leaves running and the exit
\* status alone.
C20_NonObjectIsReported ==
    /\ [][(pc = "dispatch" /\ request.kind = "nonobject" /\ pc' # pc) =>
             /\ pc' = "loop" /\ running' = running /\ exitCode' = NoExit
             /\ Len(out') = Len(out) + 1]_vars
    /\ [](\A k \in DOMAIN hist :
            hist[k].kind = "nonobject" =>
               /\ Cardinality(Answers(k)) <= 1
               /\ Handled(k) => Cardinality(Answers(k)) = 1
               /\ \A i \in Answers(k) :
                     /\ out[i].line.status = "error"
                     /\ Head(out[i].line.message) = "Daemon error: "
                     /\ out[i].line.traceback)

\* C20 witness: a non-object line was reported and the daemon answered the
\* ping after it
C20_Witness ==
    /\ Len(hist) = 2 /\ pc = "loop" /\ running
    /\ hist[1].kind = "nonobject" /\ command_of(hist[2]) = "ping"
    /\ \E i \in Answers(1) : Head(out[i].line.message) = "Daemon error: "
    /\ \E j \in Answers(2) : out[j].line.status = "pong"

\* A signal has been delivered in the listen phase
Signalled == \E n \in DOMAIN sigs : sigs[n].pc \in ListenPhase

CleanExit == pc = "exited" /\ exitCode = 0 /\ HasStatus("stopped")

\* C18 as stated: after a signal in the listen phase the process prints
\* stopped and exits, whatever the caller does.
C18_SignalLeadsToExit == Signalled ~> CleanExit

\* C18 amended: after a signal in the listen phase the process prints
\* stopped and exits as soon as the thread is not waiting in readline();
\* a thread the signal finds in readline() stays there until the caller
\* writes a line or closes the stream.
C18_SignalLeadsToExitUnlessBlocked == (Signalled /\ pc # "read") ~> CleanExit

\* C18 witness: a signal arrived during a blocked readline(), the caller
\* closed the stream, and the process stopped
C18_Witness ==
    /\ CleanExit /\ Len(sigs) = 1 /\ sigs[1].pc = "read"
    /\ eofAt # NoExit /\ sigs[1].nout < eofAt

====
